---- MODULE Spec2Model ----
(***************************************************************************)
(* Orchestration core of the temu agent runtime.                           *)
(*                                                                         *)
(*   SpecTasks : TaskList (src/teams/task-list.ts) driven by arbitrary     *)
(*               addTask / assignTask / claimNextTask / completeTask       *)
(*               calls.                                                    *)
(*   SpecRace  : N callers that each call claimNextTask once on one        *)
(*               TaskList.                                                 *)
(*   SpecPerm  : PermissionManager (src/permissions/permission-manager.ts) *)
(*   SpecExec  : ToolExecutor.execute (src/core/tool-executor.ts)          *)
(*   SpecLoop  : AgentLoop.run / abort (src/core/agent-loop.ts) with       *)
(*               ContextManager.compact (src/core/context-manager.ts)      *)
(*   SpecCompact : ContextManager.addMessage / compact called directly     *)
(*   SpecBus   : MessageBus (src/teams/message-bus.ts)                     *)
(*   SpecTeam  : TeamManager and its Teammates (src/teams/task-list.ts,    *)
(*               src/teams/teammate.ts), one team from createTeam to       *)
(*               cleanup                                                   *)
(*   SpecProgress : a team created, started and left to work, under        *)
(*               weak fairness                                             *)
(*                                                                         *)
(* Every specification constrains all variables; the variables of the      *)
(* components a specification does not exercise stay at their initial      *)
(* values.                                                                 *)
(***************************************************************************)
EXTENDS Integers, Sequences, FiniteSets, TLC

VARIABLES
    \* ---- TaskList ----
    tasks,        \* TaskList.tasks: sequence of TaskItem, creation order
    lastOp,       \* the last TaskList call and what it returned
    snap,         \* race: ids that were pending and unblocked at its start
    racePc,       \* race: per caller "idle" | "ready" | "done"
    got,          \* race: id returned to each caller by claimNextTask (0 = null)
    \* ---- PermissionManager ----
    mode,           \* PermissionManager.mode
    rules,          \* PermissionManager.rules, registration order
    sessionAllowed, \* PermissionManager.sessionAllowed
    lastCheck,      \* the last check() call and its result, until the
                    \* configuration changes again
    \* ---- ToolExecutor ----
    hookManager,    \* whether the executor was constructed with a HookManager
    exec,           \* the execute() call in progress or last finished
    \* ---- AgentLoop ----
    messages,       \* ContextManager.messages of the loop
    loop,           \* the run() call: position, locals, flag and what it did
    \* ---- ContextManager.compact called directly ----
    cmp,            \* the compact() call: position, history before it, calls made
    \* ---- MessageBus ----
    subscribers,    \* MessageBus.subscribers: Map in insertion order, as a
                    \* sequence of [name, handlers]
    history,        \* MessageBus.history
    busOp,          \* the last send/broadcast call: what it invoked and returned
    \* ---- TeamManager and its Teammates ----
    mates,          \* per teammate: status, position in start()/workOnTask(),
                    \* its AgentLoop instances and runs, pendingMessages
    lead            \* TeamManager: team active, started, bus subscription of
                    \* the lead, broadcast in progress, onAllTasksComplete calls

taskVars == <<tasks, lastOp, snap, racePc, got>>

permVars == <<mode, rules, sessionAllowed, lastCheck>>

execVars == <<hookManager, exec>>

loopVars == <<messages, loop>>

compactVars == <<cmp>>

busVars == <<subscribers, history, busOp>>

teamVars == <<mates, lead>>

vars == <<taskVars, permVars, execVars, loopVars, compactVars, busVars, teamVars>>

(***************************************************************************)
(* Bounds                                                                  *)
(***************************************************************************)
MaxTasks == 3
MaxRace == 3
MaxRules == 2

(***************************************************************************)
(* PermissionManager                                                       *)
(*                                                                         *)
(* Strings that are matched or split are sequences of characters; <<>> is  *)
(* the empty string, and also stands for an absent argument or specifier   *)
(* (the code tests both by truthiness).                                    *)
(***************************************************************************)
Modes == {"default", "acceptEdits", "plan", "dontAsk", "bypassPermissions"}

WRITE_TOOLS == {"Write", "Edit", "MultiEdit", "Bash"}

READ_TOOLS == {"Read", "Grep", "Glob", "ListDir", "AskUser"}

\* tool names of the calls checked: one of each kind the code distinguishes
CheckTools == {"Bash", "Edit", "MultiEdit", "Read", "Task"}

\* "g s" (as in 'git status') and "s"
Texts == {<<"g", " ", "s">>, <<"s">>}

NoArgs == [command |-> <<>>, file_path |-> <<>>]

\* arguments of a call: a command for Bash, a file_path for the file tools
ArgsFor(toolName) ==
    IF toolName = "Bash"
    THEN {NoArgs} \cup {[NoArgs EXCEPT !.command = t] : t \in Texts}
    ELSE IF toolName \in {"Edit", "Read"}
    THEN {NoArgs} \cup {[NoArgs EXCEPT !.file_path = t] : t \in Texts}
    ELSE IF toolName = "MultiEdit" THEN {[NoArgs EXCEPT !.file_path = <<"s">>]}
    ELSE {NoArgs}

\* parsed rule strings: 'Bash', 'Bash(g *)', 'Edit(*s)', 'MultiEdit(*)', 'Read'
RuleSpecs ==
    {[tool |-> "Bash", specifier |-> <<>>],
     [tool |-> "Bash", specifier |-> <<"g", " ", "*">>],
     [tool |-> "Edit", specifier |-> <<"*", "s">>],
     [tool |-> "MultiEdit", specifier |-> <<"*">>],
     [tool |-> "Read", specifier |-> <<>>]}

\* parseRule(type, raw) for a raw string of the form Tool or Tool(specifier)
parseRule(type, raw) ==
    [type |-> type, tool |-> raw.tool, specifier |-> raw.specifier]

\* session keys: <<tool>> is 'Tool', <<tool, token>> is 'Tool(token)'
SessionKeys == {<<"Bash">>, <<"Bash", <<"g">>>>, <<"Edit">>}

\* new RegExp('^' + pattern.replace(/\*/g, '.*') + '$').test(value)
RECURSIVE matchWildcard(_, _)
matchWildcard(pattern, value) ==
    IF pattern = <<>> THEN value = <<>>
    ELSE IF Head(pattern) = "*"
         THEN \E k \in 0..Len(value) :
                 matchWildcard(Tail(pattern), SubSeq(value, k + 1, Len(value)))
         ELSE /\ value # <<>>
              /\ Head(value) = Head(pattern)
              /\ matchWildcard(Tail(pattern), Tail(value))

matchesRule(rule, toolName, args) ==
    IF rule.tool # toolName THEN FALSE
    ELSE IF rule.specifier = <<>> THEN TRUE
    ELSE IF toolName = "Bash" /\ args.command # <<>>
         THEN matchWildcard(rule.specifier, args.command)
    ELSE IF toolName \in {"Read", "Edit", "Write"} /\ args.file_path # <<>>
         THEN matchWildcard(rule.specifier, args.file_path)
    ELSE FALSE

\* command.split(' ')[0]
RECURSIVE FirstToken(_)
FirstToken(text) ==
    IF text = <<>> \/ Head(text) = " " THEN <<>>
    ELSE <<Head(text)>> \o FirstToken(Tail(text))

getToolKey(toolName, args) ==
    IF toolName = "Bash" /\ args.command # <<>>
    THEN <<toolName, FirstToken(args.command)>>
    ELSE <<toolName>>

\* a single loop over the rules in registration order, first match wins
CheckRulesInOrder(rs, toolName, args) ==
    LET hits == {i \in 1..Len(rs) : matchesRule(rs[i], toolName, args)} IN
    IF hits = {} THEN "none"
    ELSE rs[CHOOSE i \in hits : \A j \in hits : i <= j].type

\* the deny loop, then the allow loop
CheckRules(rs, toolName, args) ==
    IF \E i \in 1..Len(rs) : rs[i].type = "deny" /\ matchesRule(rs[i], toolName, args)
    THEN "deny"
    ELSE IF \E i \in 1..Len(rs) :
                rs[i].type = "allow" /\ matchesRule(rs[i], toolName, args)
    THEN "allow"
    ELSE "none"

ModeSwitchAsksNothing(m, toolName) ==
    IF m = "plan" /\ toolName \in WRITE_TOOLS THEN "deny" ELSE "allow"

\* switch (this.mode)
ModeSwitch(m, toolName) ==
    IF m = "dontAsk" THEN "allow"
    ELSE IF m = "acceptEdits"
         THEN IF toolName \in {"Edit", "MultiEdit", "Write"} THEN "allow"
              ELSE IF toolName = "Bash" THEN "ask"
              ELSE "allow"
    ELSE IF m = "plan"
         THEN IF toolName \in WRITE_TOOLS THEN "deny" ELSE "allow"
    ELSE IF toolName \in WRITE_TOOLS THEN "ask" ELSE "allow"

\* check(toolName, args): "allow" is {allowed: true}, "deny" is
\* {allowed: false, reason}, "ask" is {needsApproval: true, description}
check(m, rs, session, toolName, args) ==
    IF m = "bypassPermissions" THEN "allow"
    ELSE IF CheckRules(rs, toolName, args) # "none"
         THEN CheckRules(rs, toolName, args)
    ELSE IF <<toolName>> \in session \/ getToolKey(toolName, args) \in session
         THEN "allow"
    ELSE IF toolName \in READ_TOOLS THEN "allow"
    ELSE ModeSwitch(m, toolName)

NoCheck == [op |-> "none", tool |-> "", args |-> NoArgs, result |-> ""]

setMode(m) ==
    /\ mode' = m
    /\ lastCheck' = NoCheck
    /\ UNCHANGED <<rules, sessionAllowed, taskVars, execVars, loopVars, compactVars, busVars, teamVars>>

addAllowRule(raw) ==
    /\ Len(rules) < MaxRules
    /\ rules' = Append(rules, parseRule("allow", raw))
    /\ lastCheck' = NoCheck
    /\ UNCHANGED <<mode, sessionAllowed, taskVars, execVars, loopVars, compactVars, busVars, teamVars>>

addDenyRule(raw) ==
    /\ Len(rules) < MaxRules
    /\ rules' = Append(rules, parseRule("deny", raw))
    /\ lastCheck' = NoCheck
    /\ UNCHANGED <<mode, sessionAllowed, taskVars, execVars, loopVars, compactVars, busVars, teamVars>>

allowForSession(toolKey) ==
    /\ sessionAllowed' = sessionAllowed \cup {toolKey}
    /\ lastCheck' = NoCheck
    /\ UNCHANGED <<mode, rules, taskVars, execVars, loopVars, compactVars, busVars, teamVars>>

Check(toolName, args) ==
    /\ lastCheck' = [op |-> "check", tool |-> toolName, args |-> args,
                     result |-> check(mode, rules, sessionAllowed, toolName, args)]
    /\ UNCHANGED <<mode, rules, sessionAllowed, taskVars, execVars, loopVars, compactVars, busVars, teamVars>>

\* a manager nobody has configured: new PermissionManager()
NoPerm ==
    /\ mode = "default"
    /\ rules = <<>>
    /\ sessionAllowed = {}
    /\ lastCheck = NoCheck

(***************************************************************************)
(* ToolExecutor.execute                                                    *)
(*                                                                         *)
(* One action per stretch of execute() between two awaits whose outcome    *)
(* comes from outside: the human's answer, the hook runner, the tool.      *)
(* exec.pc: "idle" | "asking" | "preHook" | "running" | "postHook" |       *)
(* "failHook" | "returned" | "rejected".                                   *)
(***************************************************************************)
\* registry.names()
Registered == {"Bash", "Edit", "Read"}

ToolCallIds == {"call-1", "call-2"}

\* what the human types at the prompt
Answers == {"y", "Y", "yes", "Yes", "YES", "n", "no", ""}

\* answer.toLowerCase()
toLowerCase(answer) ==
    IF answer = "Y" THEN "y"
    ELSE IF answer \in {"Yes", "YES"} THEN "yes"
    ELSE answer

ApprovesUnlessNo(answer) == toLowerCase(answer) \notin {"n", "no"}

\* !(answer.toLowerCase() !== 'y' && answer.toLowerCase() !== 'yes')
Approves(answer) == toLowerCase(answer) = "y" \/ toLowerCase(answer) = "yes"

NoResult == [toolCallId |-> "", success |-> FALSE, from |-> "none"]

\* {toolCallId, toolName, result: {success: false, output: '', error}}; "from"
\* names where the error text comes from
Failure(toolCall, from) ==
    [toolCallId |-> toolCall.id, success |-> FALSE, from |-> from]

IdleExec ==
    [pc |-> "idle", req |-> [id |-> "", name |-> "", args |-> NoArgs],
     perm |-> "", answered |-> FALSE, answer |-> "", invoked |-> FALSE,
     fired |-> <<>>, toolOut |-> "", hookErr |-> FALSE, result |-> NoResult]

\* lines 69-80: the PreToolUse notification, then tool.execute
Proceed(e) ==
    IF hookManager
    THEN [e EXCEPT !.pc = "preHook", !.fired = Append(e.fired, "PreToolUse")]
    ELSE [e EXCEPT !.pc = "running", !.invoked = TRUE]

\* lines 24-67 up to the first await that waits on the outside
Execute(toolCall) ==
    /\ exec.pc \in {"idle", "returned", "rejected"}
    /\ LET e == [IdleExec EXCEPT !.req = toolCall]
           permResult == check(mode, rules, sessionAllowed, toolCall.name, toolCall.args)
       IN
       IF toolCall.name \notin Registered
       THEN exec' = [e EXCEPT !.pc = "returned", !.result = Failure(toolCall, "unknown")]
       ELSE IF permResult = "deny"
       THEN exec' = [e EXCEPT !.pc = "returned", !.perm = permResult,
                              !.result = Failure(toolCall, "denied")]
       ELSE IF permResult = "ask"
       THEN exec' = [e EXCEPT !.pc = "asking", !.perm = permResult]
       ELSE exec' = Proceed([e EXCEPT !.perm = permResult])
    /\ UNCHANGED <<hookManager, permVars, taskVars, loopVars, compactVars, busVars, teamVars>>

\* lines 53-67: askUser resolves
Answer(answer) ==
    /\ exec.pc = "asking"
    /\ LET e == [exec EXCEPT !.answered = TRUE, !.answer = answer] IN
       IF ~Approves(answer)
       THEN exec' = [e EXCEPT !.pc = "returned", !.result = Failure(exec.req, "refused")]
       ELSE exec' = Proceed(e)
    /\ UNCHANGED <<hookManager, permVars, taskVars, loopVars, compactVars, busVars, teamVars>>

\* lines 72-80: hookManager.fire(PreToolUse) settles; the await is outside the try
PreHookDone(ok) ==
    /\ exec.pc = "preHook"
    /\ exec' = IF ok THEN [exec EXCEPT !.pc = "running", !.invoked = TRUE]
               ELSE [exec EXCEPT !.pc = "rejected", !.hookErr = TRUE]
    /\ UNCHANGED <<hookManager, permVars, taskVars, loopVars, compactVars, busVars, teamVars>>

\* lines 80-107: tool.execute settles: a result with success true ("ok") or
\* false ("fail"), or an exception ("throw")
ToolDone(out) ==
    /\ exec.pc = "running"
    /\ LET res == IF out = "throw" THEN Failure(exec.req, "toolThrow")
                  ELSE [toolCallId |-> exec.req.id, success |-> (out = "ok"), from |-> "tool"]
           e == [exec EXCEPT !.toolOut = out, !.result = res]
       IN
       IF ~hookManager THEN exec' = [e EXCEPT !.pc = "returned"]
       ELSE IF out = "ok"
       THEN exec' = [e EXCEPT !.pc = "postHook", !.fired = Append(exec.fired, "PostToolUse")]
       ELSE IF out = "fail"
       THEN exec' = [e EXCEPT !.pc = "postHook",
                              !.fired = Append(exec.fired, "PostToolUseFailure")]
       ELSE exec' = [e EXCEPT !.pc = "failHook",
                              !.fired = Append(exec.fired, "PostToolUseFailure")]
    /\ UNCHANGED <<hookManager, permVars, taskVars, loopVars, compactVars, busVars, teamVars>>

\* lines 85-105: the post-execution fire inside the try settles; its exception
\* lands in the catch, which builds a failed result and fires again
PostHookDone(ok) ==
    /\ exec.pc = "postHook"
    /\ exec' = IF ok THEN [exec EXCEPT !.pc = "returned"]
               ELSE [exec EXCEPT !.pc = "failHook", !.hookErr = TRUE,
                                 !.result = Failure(exec.req, "hook"),
                                 !.fired = Append(exec.fired, "PostToolUseFailure")]
    /\ UNCHANGED <<hookManager, permVars, taskVars, loopVars, compactVars, busVars, teamVars>>

\* lines 99-107: the fire inside the catch settles
FailHookDone(ok) ==
    /\ exec.pc = "failHook"
    /\ exec' = IF ok THEN [exec EXCEPT !.pc = "returned"]
               ELSE [exec EXCEPT !.pc = "rejected", !.hookErr = TRUE]
    /\ UNCHANGED <<hookManager, permVars, taskVars, loopVars, compactVars, busVars, teamVars>>

\* an executor nobody uses
NoExec ==
    /\ hookManager = FALSE
    /\ exec = IdleExec

(***************************************************************************)
(* AgentLoop.run / abort over ContextManager                               *)
(*                                                                         *)
(* One action per stretch of run() between two awaits that wait on the     *)
(* outside: the summarization call of compact(), the turn's provider.chat, *)
(* toolExecutor.execute.  loop.pc: "idle" | "summarizing" | "chatting" |   *)
(* "executing" | "returned".                                               *)
(* Token cost is counted in units of one tool result truncated to 50000    *)
(* characters (about 12500 tokens): a message is heavy (one unit) or not.  *)
(***************************************************************************)
MaxTurns == 3

\* config.maxTurns
TurnLimits == 0..MaxTurns

\* response.toolCalls.length
CallCounts == {0, 1, 2}

\* contextWindow * compactThreshold = 32768 * 0.8 tokens: two units fit, three do not
CompactLimit == 2

\* longest history handed to compact()
MaxHistory == 6

NoId == [turn |-> 0, idx |-> 0]

Message(role, calls, callId, heavy) ==
    [role |-> role, calls |-> calls, callId |-> callId, heavy |-> heavy]

\* buildSystemPrompt(...)
SystemMsg == Message("system", <<>>, NoId, FALSE)

buildToolResultMessageNoId(toolCallId, heavy) == Message("tool", <<>>, NoId, heavy)

\* buildToolResultMessage(tc.id, execResult.result)
buildToolResultMessage(toolCallId, heavy) == Message("tool", <<>>, toolCallId, heavy)

\* getTokenEstimate()
getTokenEstimate(msgs) == Cardinality({i \in 1..Len(msgs) : msgs[i].heavy})

needsCompaction(msgs) == getTokenEstimate(msgs) > CompactLimit

\* compact(): messages.find(m => m.role === 'system')
HasSystem(msgs) == \E i \in 1..Len(msgs) : msgs[i].role = "system"

recentMessagesThree(msgs) ==
    IF Len(msgs) <= 3 THEN msgs ELSE SubSeq(msgs, Len(msgs) - 2, Len(msgs))

\* compact(): messages.slice(-4)
recentMessages(msgs) ==
    IF Len(msgs) <= 4 THEN msgs ELSE SubSeq(msgs, Len(msgs) - 3, Len(msgs))

\* compact(): messages.slice(systemMsg ? 1 : 0, messages.length - 4)
middleMessages(msgs) ==
    SubSeq(msgs, IF HasSystem(msgs) THEN 2 ELSE 1, Len(msgs) - 4)

CompactCallsProviderAlways(msgs) == Len(msgs) >= 4

\* compact() gets as far as its provider.chat call
CompactCallsProvider(msgs) == Len(msgs) >= 4 /\ middleMessages(msgs) # <<>>

\* compact(): if (systemMsg) this.messages.push(systemMsg), find() giving
\* the first system message
SystemPart(msgs) ==
    IF HasSystem(msgs)
    THEN <<msgs[CHOOSE i \in 1..Len(msgs) :
                   /\ msgs[i].role = "system"
                   /\ \A j \in 1..(i - 1) : msgs[j].role # "system"]>>
    ELSE <<>>

\* the synthetic summary and acknowledgment messages
SummaryMsgs == <<Message("user", <<>>, NoId, FALSE), Message("assistant", <<>>, NoId, FALSE)>>

CompactedNoFallback(msgs, ok) ==
    IF ok THEN SystemPart(msgs) \o SummaryMsgs \o recentMessages(msgs) ELSE msgs

\* compact() after the summarization call settled
Compacted(msgs, ok) ==
    IF ok
    THEN SystemPart(msgs) \o SummaryMsgs \o recentMessages(msgs)
    ELSE SystemPart(msgs) \o recentMessages(msgs)

IdleCompact == [pc |-> "idle", before |-> <<>>, calls |-> 0, ok |-> FALSE]

\* messages a caller hands to addMessage
AddKinds ==
    {Message(r, <<>>, NoId, FALSE) : r \in {"system", "user", "assistant", "tool"}}
        \cup {Message("user", <<>>, NoId, TRUE)}

\* context-manager.ts 20-22
addMessage(m) ==
    /\ cmp.pc # "summarizing"
    /\ Len(messages) < MaxHistory
    /\ messages' = Append(messages, m)
    /\ cmp' = IdleCompact
    /\ UNCHANGED <<loop, taskVars, permVars, execVars, busVars, teamVars>>

\* context-manager.ts 45-77: compact() up to its return or its provider.chat
compact ==
    /\ cmp.pc # "summarizing"
    /\ IF CompactCallsProvider(messages)
       THEN cmp' = [pc |-> "summarizing", before |-> messages, calls |-> 1, ok |-> FALSE]
       ELSE cmp' = [pc |-> "done", before |-> messages, calls |-> 0, ok |-> FALSE]
    /\ UNCHANGED <<messages, loop, taskVars, permVars, execVars, busVars, teamVars>>

\* context-manager.ts 77-101: the summarization call settles
CompactSettle(ok) ==
    /\ cmp.pc = "summarizing"
    /\ messages' = Compacted(messages, ok)
    /\ cmp' = [cmp EXCEPT !.pc = "done", !.ok = ok]
    /\ UNCHANGED <<loop, taskVars, permVars, execVars, busVars, teamVars>>

NoContent == [text |-> "", marker |-> FALSE]

IdleLoop ==
    [pc |-> "idle", maxTurns |-> 0, turns |-> 0, aborted |-> FALSE,
     finalContent |-> NoContent, pending |-> <<>>,
     chats |-> 0, summaries |-> 0, tools |-> 0,
     abortCalled |-> FALSE, late |-> {}, allToolTurns |-> TRUE,
     summaryOk |-> "none",
     result |-> [turns |-> 0, aborted |-> FALSE, finalContent |-> NoContent]]

ContinueLoopInclusive(l) == l.turns <= l.maxTurns /\ ~l.aborted

\* line 70: while (turns < maxTurns && !this.aborted)
ContinueLoop(l) == l.turns < l.maxTurns /\ ~l.aborted

\* lines 145-154: the marker and the returned AgentLoopResult
Finish(l) ==
    LET fc == [l.finalContent EXCEPT !.marker = (l.turns >= l.maxTurns)] IN
    [l EXCEPT !.pc = "returned", !.finalContent = fc, !.pending = <<>>,
              !.result = [turns |-> l.turns, aborted |-> l.aborted, finalContent |-> fc]]

\* line 85: provider.chat(messages, tools) is called
StartChat(l) ==
    [l EXCEPT !.pc = "chatting", !.chats = l.chats + 1,
              !.late = IF l.aborted THEN l.late \cup {"chat"} ELSE l.late]

\* lines 70-85: the loop condition, turns++, and either the summarization call
\* of compact() or, when compact() is not needed or returns at once, the
\* turn's provider.chat
TurnStart(l, msgs) ==
    IF ~ContinueLoop(l) THEN Finish(l)
    ELSE LET t == [l EXCEPT !.turns = l.turns + 1] IN
         IF needsCompaction(msgs) /\ CompactCallsProvider(msgs)
         THEN [t EXCEPT !.pc = "summarizing", !.summaries = l.summaries + 1,
                        !.late = IF l.aborted THEN l.late \cup {"summary"} ELSE l.late]
         ELSE StartChat(t)

\* lines 115-127: the for loop over the remaining tool calls; onToolCall may
\* itself call abort() (cbAbort) before execute is awaited
NextTool(l, msgs, cbAbort) ==
    IF l.pending = <<>> \/ l.aborted
    THEN TurnStart([l EXCEPT !.pending = <<>>], msgs)
    ELSE LET a == l.aborted \/ cbAbort IN
         [l EXCEPT !.pc = "executing", !.aborted = a, !.tools = l.tools + 1,
                   !.abortCalled = l.abortCalled \/ cbAbort,
                   !.late = IF a THEN l.late \cup {"tool"} ELSE l.late]

\* lines 62-85
Run(maxTurns, heavy) ==
    /\ loop.pc = "idle"
    /\ LET msgs == Append(messages, Message("user", <<>>, NoId, heavy)) IN
       /\ messages' = msgs
       /\ loop' = TurnStart([IdleLoop EXCEPT !.maxTurns = maxTurns], msgs)
    /\ UNCHANGED <<taskVars, permVars, execVars, compactVars, busVars, teamVars>>

\* lines 54-56, called while run() waits for a provider or tool call
abort ==
    /\ loop.pc \in {"summarizing", "chatting", "executing"}
    /\ ~loop.aborted
    /\ loop' = [loop EXCEPT !.aborted = TRUE, !.abortCalled = TRUE]
    /\ UNCHANGED <<messages, taskVars, permVars, execVars, compactVars, busVars, teamVars>>

\* context-manager.ts 76-101, then agent-loop.ts 79-85
SummaryDone(ok) ==
    /\ loop.pc = "summarizing"
    /\ messages' = Compacted(messages, ok)
    /\ loop' = StartChat([loop EXCEPT !.summaryOk = IF ok THEN "ok" ELSE "failed"])
    /\ UNCHANGED <<taskVars, permVars, execVars, compactVars, busVars, teamVars>>

\* lines 85-142: provider.chat settles; n tool calls, or n = -1 for an exception
ChatDone(content, n, cbAbort) ==
    /\ loop.pc = "chatting"
    /\ IF n < 0
       THEN /\ loop' = Finish([loop EXCEPT !.finalContent.text = "error",
                                           !.allToolTurns = FALSE])
            /\ messages' = messages
       ELSE LET fc == IF content THEN [loop.finalContent EXCEPT !.text = "content"]
                      ELSE loop.finalContent
                ids == [i \in 1..n |-> [turn |-> loop.turns, idx |-> i]]
            IN IF n > 0
               THEN LET msgs == Append(messages, Message("assistant", ids, NoId, FALSE)) IN
                    /\ messages' = msgs
                    /\ loop' = NextTool([loop EXCEPT !.finalContent = fc, !.pending = ids],
                                        msgs, cbAbort)
               ELSE /\ messages' = IF content
                                   THEN Append(messages, Message("assistant", <<>>, NoId, FALSE))
                                   ELSE messages
                    /\ loop' = Finish([loop EXCEPT !.finalContent = fc,
                                                   !.allToolTurns = FALSE])
    /\ UNCHANGED <<taskVars, permVars, execVars, compactVars, busVars, teamVars>>

\* lines 119-127: toolExecutor.execute settles with a result (the loop's
\* executor has no hook manager); then the next tool call or the next turn
ExecDone(heavy, cbAbort) ==
    /\ loop.pc = "executing"
    /\ LET msgs == Append(messages, buildToolResultMessage(Head(loop.pending), heavy)) IN
       /\ messages' = msgs
       /\ loop' = NextTool([loop EXCEPT !.pending = Tail(loop.pending)], msgs, cbAbort)
    /\ UNCHANGED <<taskVars, permVars, execVars, compactVars, busVars, teamVars>>

\* a loop nobody runs
NoLoop ==
    /\ messages = <<>>
    /\ loop = IdleLoop
    /\ cmp = IdleCompact

(***************************************************************************)
(* MessageBus                                                              *)
(*                                                                         *)
(* send and broadcast are synchronous: one action each.  A handler is      *)
(* known by what it does when invoked: "ok" returns, "bad" throws.         *)
(***************************************************************************)
MaxSends == 2

\* names that subscribe
AgentNames == {"lead", "a", "b"}

\* names a message can be addressed to; "zed" never subscribes
Recipients == AgentNames \cup {"zed"}

Handlers == {"ok", "bad"}

\* the handler lists a name is given, one subscribe call at a time
HandlerLists == {<<"ok">>, <<"bad">>, <<"ok", "bad">>, <<"bad", "ok">>}

\* callers of send, and callers of broadcast
Senders == {"lead"}

Broadcasters == {"lead", "b"}

NoBusOp == [op |-> "none", from |-> "", before |-> <<>>, invoked |-> <<>>,
            returned |-> <<>>, threw |-> FALSE]

\* subscribers.get(agentName) ?? []
HandlersOf(subs, agentName) ==
    LET S == {i \in 1..Len(subs) : subs[i].name = agentName} IN
    IF S = {} THEN <<>> ELSE subs[CHOOSE i \in S : TRUE].handlers

\* part_006 68-72
subscribe(agentName, handler) ==
    /\ Append(HandlersOf(subscribers, agentName), handler) \in HandlerLists
    /\ subscribers' =
          IF HandlersOf(subscribers, agentName) = <<>>
          THEN Append(subscribers, [name |-> agentName, handlers |-> <<handler>>])
          ELSE [i \in 1..Len(subscribers) |->
                   IF subscribers[i].name = agentName
                   THEN [subscribers[i] EXCEPT !.handlers = Append(@, handler)]
                   ELSE subscribers[i]]
    /\ busOp' = NoBusOp
    /\ UNCHANGED <<history, taskVars, permVars, execVars, loopVars, compactVars, teamVars>>

\* part_006 74-76
unsubscribe(agentName) ==
    /\ HandlersOf(subscribers, agentName) # <<>>
    /\ subscribers' = SelectSeq(subscribers, LAMBDA e : e.name # agentName)
    /\ busOp' = NoBusOp
    /\ UNCHANGED <<history, taskVars, permVars, execVars, loopVars, compactVars, teamVars>>

RECURSIVE DeliverUntilThrow(_, _)
DeliverUntilThrow(hs, to) ==
    IF hs = <<>> THEN [invoked |-> <<>>, threw |-> FALSE]
    ELSE IF Head(hs) = "bad"
    THEN [invoked |-> <<[name |-> to, handler |-> 1, does |-> "bad"]>>, threw |-> TRUE]
    ELSE LET rest == DeliverUntilThrow(Tail(hs), to) IN
         [invoked |-> <<[name |-> to, handler |-> 1, does |-> "ok"]>>
                        \o [i \in 1..Len(rest.invoked) |->
                               [rest.invoked[i] EXCEPT !.handler = @ + 1]],
          threw |-> rest.threw]

\* part_006 92-99: every handler of the recipient is called inside its own
\* try/catch; "handler" is the position in the recipient's list
Deliver(hs, to) ==
    [invoked |-> [i \in 1..Len(hs) |-> [name |-> to, handler |-> i, does |-> hs[i]]],
     threw |-> FALSE]

TeamMessage(from, to, type) == [from |-> from, to |-> to, type |-> type]

\* part_006 78-102
send(from, to, type) ==
    /\ Len(history) < MaxSends
    /\ LET msg == TeamMessage(from, to, type)
           d == Deliver(HandlersOf(subscribers, to), to)
       IN /\ history' = Append(history, msg)
          /\ busOp' = [op |-> "send", from |-> from, before |-> history,
                       invoked |-> d.invoked, returned |-> <<msg>>, threw |-> d.threw]
    /\ UNCHANGED <<subscribers, taskVars, permVars, execVars, loopVars, compactVars, teamVars>>

broadcastTargetsAll(subs, from) == [i \in 1..Len(subs) |-> subs[i].name]

\* part_006 106-107: the subscribed names other than the sender, in Map order
broadcastTargets(subs, from) ==
    LET others == SelectSeq(subs, LAMBDA e : e.name # from) IN
    [i \in 1..Len(others) |-> others[i].name]

RECURSIVE SendAll(_, _, _)
\* part_006 104-112: one send per target
SendAll(subs, from, targets) ==
    IF targets = <<>> THEN [msgs |-> <<>>, invoked |-> <<>>, threw |-> FALSE]
    ELSE LET d == Deliver(HandlersOf(subs, Head(targets)), Head(targets))
             rest == SendAll(subs, from, Tail(targets))
         IN [msgs |-> <<TeamMessage(from, Head(targets), "broadcast")>> \o rest.msgs,
             invoked |-> d.invoked \o rest.invoked,
             threw |-> d.threw \/ rest.threw]

\* part_006 104-112
broadcast(from) ==
    LET r == SendAll(subscribers, from, broadcastTargets(subscribers, from)) IN
    /\ Len(history) + Len(r.msgs) <= MaxSends
    /\ history' = history \o r.msgs
    /\ busOp' = [op |-> "broadcast", from |-> from, before |-> history,
                 invoked |-> r.invoked, returned |-> r.msgs, threw |-> r.threw]
    /\ UNCHANGED <<subscribers, taskVars, permVars, execVars, loopVars, compactVars, teamVars>>

\* a bus nobody uses
NoBus ==
    /\ subscribers = <<>>
    /\ history = <<>>
    /\ busOp = NoBusOp

(***************************************************************************)
(* TaskList                                                                *)
(*                                                                         *)
(* A task id is the task's creation index (uuidv4 prefixes are distinct    *)
(* per task); id 0 stands for an id that names no task ('fake-id').        *)
(* assignee 0 is null.  result "none" is undefined.                        *)
(***************************************************************************)
Callers == {1, 2}

Racers == 1..MaxRace

TaskStatus == {"pending", "in_progress", "completed", "blocked"}

\* completeTask(id, result): the result text stored; "none" is undefined
Results == {"done"}

NoOp == [op |-> "none", id |-> 0, ret |-> 0]

\* this.tasks.find((t) => t.id === taskId): the index, or 0 when not found
FindTask(ts, id) == IF id \in 1..Len(ts) THEN id ELSE 0

isUnblockedSome(ts, t) ==
    IF t.blockedBy = {} THEN TRUE
    ELSE \E depId \in t.blockedBy :
            /\ FindTask(ts, depId) # 0
            /\ ts[FindTask(ts, depId)].status = "completed"

\* blockedBy.every((depId) => tasks.find(id)?.status === 'completed')
isUnblocked(ts, t) ==
    IF t.blockedBy = {} THEN TRUE
    ELSE \A depId \in t.blockedBy :
            /\ FindTask(ts, depId) # 0
            /\ ts[FindTask(ts, depId)].status = "completed"

updateBlockedTasksAll(ts) ==
    [i \in 1..Len(ts) |->
        IF ts[i].status = "blocked"
        THEN [ts[i] EXCEPT !.status = "pending"]
        ELSE ts[i]]

\* the for-loop body reads only 'completed' statuses and writes 'pending',
\* so the promotions of one pass do not influence each other
updateBlockedTasks(ts) ==
    [i \in 1..Len(ts) |->
        IF ts[i].status = "blocked" /\ isUnblocked(ts, ts[i])
        THEN [ts[i] EXCEPT !.status = "pending"]
        ELSE ts[i]]

NewTask(blockedBy) ==
    [status    |-> IF blockedBy # {} THEN "blocked" ELSE "pending",
     assignee  |-> 0,
     blockedBy |-> blockedBy,
     result    |-> "none"]

\* tasks.find((t) => t.status === 'pending' && this.isUnblocked(t))
Claimable(ts) ==
    {i \in 1..Len(ts) : ts[i].status = "pending" /\ isUnblocked(ts, ts[i])}

FirstClaimableLatest(ts) ==
    IF Claimable(ts) = {} THEN 0
    ELSE CHOOSE i \in Claimable(ts) : \A j \in Claimable(ts) : i >= j

FirstClaimable(ts) ==
    IF Claimable(ts) = {} THEN 0
    ELSE CHOOSE i \in Claimable(ts) : \A j \in Claimable(ts) : i <= j

MarkAssignedNoStatus(t, who) == [t EXCEPT !.assignee = who]

\* task.assignee = assignee; task.status = 'in_progress'
MarkAssigned(t, who) == [t EXCEPT !.assignee = who, !.status = "in_progress"]

\* completeTask: status = 'completed', result stored, then updateBlockedTasks
MarkCompleted(ts, i, res) ==
    updateBlockedTasks([ts EXCEPT ![i].status = "completed", ![i].result = res])

addTask(blockedBy) ==
    /\ Len(tasks) < MaxTasks
    /\ tasks' = Append(tasks, NewTask(blockedBy))
    /\ lastOp' = [op |-> "add", id |-> Len(tasks) + 1, ret |-> Len(tasks) + 1]
    /\ UNCHANGED <<snap, racePc, got, permVars, execVars, loopVars, compactVars, busVars, teamVars>>

AssignableUnlessCompleted(ts, i) == i # 0 /\ ts[i].status # "completed"

\* if (!task || task.status !== 'pending') return false
Assignable(ts, i) == i # 0 /\ ts[i].status = "pending"

assignTask(taskId, assignee) ==
    /\ LET i == FindTask(tasks, taskId) IN
        IF ~Assignable(tasks, i)
        THEN /\ tasks' = tasks
             /\ lastOp' = [op |-> "assign", id |-> taskId, ret |-> 0]
        ELSE /\ tasks' = [tasks EXCEPT ![i] = MarkAssigned(tasks[i], assignee)]
             /\ lastOp' = [op |-> "assign", id |-> taskId, ret |-> 1]
    /\ UNCHANGED <<snap, racePc, got, permVars, execVars, loopVars, compactVars, busVars, teamVars>>

\* claimNextTask is synchronous (no await between the scan and the
\* assignment), so on the single-threaded event loop it is one step
ClaimResult(ts, assignee) ==
    LET i == FirstClaimable(ts) IN
    IF i = 0 THEN [ts |-> ts, ret |-> 0]
    ELSE [ts |-> [ts EXCEPT ![i] = MarkAssigned(ts[i], assignee)], ret |-> i]

claimNextTask(assignee) ==
    /\ LET r == ClaimResult(tasks, assignee) IN
        /\ tasks' = r.ts
        /\ lastOp' = [op |-> "claim", id |-> r.ret, ret |-> r.ret]
    /\ UNCHANGED <<snap, racePc, got, permVars, execVars, loopVars, compactVars, busVars, teamVars>>

completeTask(taskId, res) ==
    /\ LET i == FindTask(tasks, taskId) IN
        IF i = 0
        THEN /\ tasks' = tasks
             /\ lastOp' = [op |-> "complete", id |-> taskId, ret |-> 0]
        ELSE /\ tasks' = MarkCompleted(tasks, i, res)
             /\ lastOp' = [op |-> "complete", id |-> taskId, ret |-> 1]
    /\ UNCHANGED <<snap, racePc, got, permVars, execVars, loopVars, compactVars, busVars, teamVars>>

\* one of the N callers of the race makes its single claimNextTask call
RaceClaim(c) ==
    /\ racePc[c] = "ready"
    /\ LET r == ClaimResult(tasks, c) IN
        /\ tasks' = r.ts
        /\ got' = [got EXCEPT ![c] = r.ret]
        /\ lastOp' = [op |-> "claim", id |-> r.ret, ret |-> r.ret]
    /\ racePc' = [racePc EXCEPT ![c] = "done"]
    /\ UNCHANGED <<snap, permVars, execVars, loopVars, compactVars, busVars, teamVars>>

(***************************************************************************)
(* TeamManager and Teammate                                                *)
(*                                                                         *)
(* A teammate is named by a number (the assignee of the TaskList model).   *)
(* One action per stretch of code between two awaits that wait on the      *)
(* outside (a provider or tool call of an agent-loop run, taskList.save).  *)
(* An agent-loop run is followed through its outstanding calls only:       *)
(* "chat" (provider.chat in flight) and "tool" (toolExecutor.execute in    *)
(* flight).  mates[t].pc: "new" | "running" | "saving" | "draining" |      *)
(* "resaving" | "done".  The bus is followed through what its handlers do: *)
(* a teammate's handler pushes to pendingMessages, the lead's handler      *)
(* calls checkAllComplete on an idle message.                              *)
(***************************************************************************)
MaxPending == 1

Teammates == {1, 2}

\* request.members in order
Members == <<1, 2>>

NoRun == [phase |-> "none", inst |-> 0]

\* result: how the task's run ended, held by workOnTask from the return of
\* run() to the end of its completion report (teammate.ts 147-157)
NewMate ==
    [status |-> "idle", pc |-> "new", task |-> 0, inst |-> 0, abortedInsts |-> {},
     run |-> NoRun, result |-> "none", pending |-> <<>>, subscribed |-> TRUE]

\* the lead's sendMessage/broadcast call in progress: the teammate whose
\* run it awaits and the teammates a broadcast still has to visit
NoCall == [phase |-> "none", inst |-> 0, mate |-> 0, rest |-> <<>>]

\* request: the tasks of the CreateTeamRequest the team was built from
NoLead == [active |-> FALSE, cleaning |-> FALSE, started |-> FALSE, subscribed |-> TRUE,
           call |-> NoCall, raised |-> 0, request |-> <<>>]

\* task-list.ts 121-123
isAllComplete(ts) == \A i \in 1..Len(ts) : ts[i].status = "completed"

checkAllCompleteAnyway(S) ==
    IF S.lead.active
    THEN [S EXCEPT !.lead.raised = IF @ < 2 THEN @ + 1 ELSE @]
    ELSE S

\* task-list.ts 764-769; the calls of onAllTasksComplete are counted up to 2
checkAllComplete(S) ==
    IF S.lead.active /\ isAllComplete(S.tasks)
    THEN [S EXCEPT !.lead.raised = IF @ < 2 THEN @ + 1 ELSE @]
    ELSE S

\* messageBus.sendIdle(name): the lead's handler (task-list.ts 481-485)
sendIdle(S) == IF S.lead.subscribed THEN checkAllComplete(S) ELSE S

\* setStatus('idle'); messageBus.sendIdle(this.name)
GoIdle(S, t) == sendIdle([S EXCEPT !.mates[t].status = "idle"])

\* agent-loop.ts 62-85 as called on the teammate's current AgentLoop:
\* this.aborted = false, then the first provider.chat
\* own: the run belongs to the teammate's own workOnTask/processMessages;
\* otherwise the lead's call record holds it
StartRun(m, own) ==
    LET c == [m EXCEPT !.abortedInsts = @ \ {m.inst}] IN
    IF own THEN [c EXCEPT !.run = [phase |-> "chat", inst |-> m.inst]] ELSE c

\* teammate.ts 207-214
Shutdown(m) ==
    [m EXCEPT !.abortedInsts = IF m.inst > 0 THEN @ \cup {m.inst} ELSE @,
              !.subscribed = FALSE,
              !.status = "shutdown"]

\* teammate.ts 98-147: setStatus('working'), a new AgentLoop, run() called
workOnTask(S, t, task) ==
    LET m == S.mates[t]
        w == [m EXCEPT !.status = "working", !.task = task, !.inst = m.inst + 1,
                       !.pc = "running"]
    IN [S EXCEPT !.mates[t] = StartRun(w, TRUE)]

\* teammate.ts 81-96
start(S, t, initialTask) ==
    LET r == IF initialTask # 0 THEN [ts |-> S.tasks, ret |-> initialTask]
             ELSE ClaimResult(S.tasks, t)
        C == [S EXCEPT !.tasks = r.ts]
    IN IF r.ret = 0
       THEN GoIdle([C EXCEPT !.mates[t].pc = "done"], t)
       ELSE workOnTask(C, t, r.ret)

\* teammate.ts 162-172: claim the next task or go idle
AfterDrain(S, t) ==
    LET r == ClaimResult(S.tasks, t)
        C == [S EXCEPT !.tasks = r.ts]
    IN IF r.ret # 0
       THEN [C EXCEPT !.mates[t].task = r.ret, !.mates[t].pc = "resaving"]
       ELSE GoIdle([C EXCEPT !.mates[t].task = 0, !.mates[t].pc = "done"], t)

RECURSIVE processMessages(_, _)
\* teammate.ts 192-205 up to the next awaited run, then 162-172
processMessages(S, t) ==
    LET m == S.mates[t] IN
    IF m.pending = <<>> THEN AfterDrain(S, t)
    ELSE LET msg == Head(m.pending)
             d == [m EXCEPT !.pending = Tail(m.pending)]
         IN IF msg.type = "shutdown"
            THEN AfterDrain([S EXCEPT !.mates[t] = Shutdown(d)], t)
            ELSE IF d.inst > 0
            THEN [S EXCEPT !.mates[t] = StartRun([d EXCEPT !.pc = "draining"], TRUE)]
            ELSE processMessages([S EXCEPT !.mates[t] = d], t)

\* the state the operators above work on
Now == [tasks |-> tasks, mates |-> mates, lead |-> lead]

Becomes(S) ==
    /\ tasks' = S.tasks
    /\ mates' = S.mates
    /\ lead' = S.lead
    /\ UNCHANGED <<lastOp, snap, racePc, got, permVars, execVars, loopVars, compactVars, busVars>>

\* a task of a CreateTeamRequest: its title, the titles it waits for and the
\* teammate it is given to (0: no assignee)
TaskDef(title, blockedBy, assignee) ==
    [title |-> title, blockedBy |-> blockedBy, assignee |-> assignee]

\* taskIdMap.get(title) when the first k definitions have been added: the id
\* of the last of them with that title, 0 (undefined) when there is none
taskIdMap(defs, k, title) ==
    LET J == {j \in 1..k : defs[j].title = title} IN
    IF J = {} THEN 0 ELSE CHOOSE j \in J : \A i \in J : i <= j

\* (taskDef.blockedBy ?? []).map((title) => taskIdMap.get(title)).filter(Boolean)
blockedByIds(defs, k) ==
    {taskIdMap(defs, k - 1, title) : title \in defs[k].blockedBy} \ {0}

RECURSIVE SeedTasks(_, _)
\* task-list.ts 520-532: the queue after the first k task definitions
SeedTasks(defs, k) ==
    IF k = 0 THEN <<>>
    ELSE LET added == Append(SeedTasks(defs, k - 1), NewTask(blockedByIds(defs, k))) IN
         IF defs[k].assignee # 0 /\ Assignable(added, k)
         THEN [added EXCEPT ![k] = MarkAssigned(added[k], defs[k].assignee)]
         ELSE added

\* task-list.ts 511-582, for the members of Members
createTeam(defs) ==
    /\ lead = NoLead
    /\ tasks = <<>>
    /\ Becomes([Now EXCEPT !.tasks = SeedTasks(defs, Len(defs)),
                           !.lead.active = TRUE,
                           !.lead.request = defs])

\* task-list.ts 589-591
FindAssigned(ts, t) ==
    LET A == {i \in 1..Len(ts) : ts[i].assignee = t /\ ts[i].status = "in_progress"} IN
    IF A = {} THEN 0 ELSE CHOOSE i \in A : \A j \in A : i <= j

RECURSIVE StartAll(_, _)
StartAll(S, ms) ==
    IF ms = <<>> THEN S
    ELSE StartAll(start(S, Head(ms), FindAssigned(S.tasks, Head(ms))), Tail(ms))

\* task-list.ts 584-597: every start() runs up to its first pending call
startTeam ==
    /\ lead.active
    /\ ~lead.started
    /\ Becomes(StartAll([Now EXCEPT !.lead.started = TRUE], Members))

\* one more outstanding call of a run in flight: after the provider's answer
\* the first tool call, after a tool result the next tool call or the next
\* turn's provider call; neither starts once the loop's flag is set
NextPhase(phase, aborted) ==
    IF aborted THEN {} ELSE IF phase = "chat" THEN {"tool"} ELSE {"tool", "chat"}

\* the teammate's own run goes on
RunStep(t) ==
    /\ mates[t].run.phase # "none"
    /\ \E ph \in NextPhase(mates[t].run.phase, mates[t].run.inst \in mates[t].abortedInsts) :
          mates' = [mates EXCEPT ![t].run.phase = ph]
    /\ UNCHANGED <<lead, taskVars, permVars, execVars, loopVars, compactVars, busVars>>

\* agent-loop.ts 70-147, how a run can end after its outstanding call: the
\* provider's answer asks for no tool ("stop") or provider.chat throws
\* ("error"); after a tool result the turn ceiling is reached ("max"); with
\* the aborted flag set the loop is left before the next call ("aborted")
RunEnds(phase, aborted) ==
    (IF phase = "chat" THEN {"stop", "error"} ELSE {"max"})
    \cup (IF aborted THEN {"aborted"} ELSE {})

\* teammate.ts 147-153: the task's run returns, completeTask, save() called
TaskRunDone(t, how) ==
    /\ mates[t].pc = "running"
    /\ how \in RunEnds(mates[t].run.phase, mates[t].run.inst \in mates[t].abortedInsts)
    /\ LET i == FindTask(tasks, mates[t].task)
           ts == IF i = 0 THEN tasks ELSE MarkCompleted(tasks, i, "done")
       IN Becomes([Now EXCEPT !.tasks = ts, !.mates[t].run = NoRun,
                              !.mates[t].result = how, !.mates[t].pc = "saving"])

\* teammate.ts 153-177: save() settles; onTaskComplete, the task update,
\* processMessages up to its first run, or the catch
SaveDone(t, ok) ==
    /\ mates[t].pc = "saving"
    /\ LET S == [Now EXCEPT !.mates[t].result = "none"] IN
       IF ok THEN Becomes(processMessages(checkAllComplete(S), t))
       ELSE Becomes(GoIdle([S EXCEPT !.mates[t].pc = "done"], t))

\* teammate.ts 201-204: a run made for a pending message returns
DrainRunDone(t) ==
    /\ mates[t].pc = "draining"
    /\ Becomes(processMessages([Now EXCEPT !.mates[t].run = NoRun], t))

\* teammate.ts 166-177: the save() after the claim settles
ResaveDone(t, ok) ==
    /\ mates[t].pc = "resaving"
    /\ IF ok THEN Becomes(workOnTask(Now, t, mates[t].task))
       ELSE Becomes(GoIdle([Now EXCEPT !.mates[t].pc = "done"], t))

\* messageBus.send('lead', to, ...): the teammate's handler (teammate.ts 63-65)
\* direct: TeamManager.sendMessage also hands the content of this message to
\* teammate.sendMessage, which runs it on the teammate's loop
Push(m, type, direct) ==
    IF m.subscribed
    THEN [m EXCEPT !.pending = Append(@, [type |-> type, direct |-> direct])]
    ELSE m

RoomFor(m) == m.subscribed => Len(m.pending) < MaxPending

\* teammate.ts 180-190 called by the lead: nothing without an AgentLoop,
\* otherwise run() on the teammate's current loop
CallMate(S, t, rest) ==
    IF S.mates[t].inst = 0 THEN S
    ELSE [S EXCEPT !.mates[t] = StartRun(S.mates[t], FALSE),
                   !.lead.call = [phase |-> "chat", inst |-> S.mates[t].inst,
                                  mate |-> t, rest |-> rest]]

\* task-list.ts 599-607
sendMessage(t) ==
    /\ lead.active
    /\ lead.call.phase = "none"
    /\ RoomFor(mates[t])
    /\ Becomes(CallMate([Now EXCEPT !.mates[t] = Push(mates[t], "message", mates[t].inst > 0)],
                        t, <<>>))

RECURSIVE BroadcastNext(_, _)
\* task-list.ts 611-615: the teammates in order, up to the next awaited run
BroadcastNext(S, ms) ==
    IF ms = <<>> THEN S
    ELSE LET t == Head(ms) IN
         IF S.mates[t].status # "shutdown" /\ S.mates[t].inst > 0
         THEN CallMate(S, t, Tail(ms))
         ELSE BroadcastNext(S, Tail(ms))

\* task-list.ts 609-616
teamBroadcast ==
    /\ lead.active
    /\ lead.call.phase = "none"
    /\ \A t \in Teammates : RoomFor(mates[t])
    /\ Becomes(BroadcastNext(
           [Now EXCEPT !.mates = [t \in Teammates |-> Push(mates[t], "broadcast", FALSE)]],
           Members))

\* the run awaited by the lead's call goes on
CallStep ==
    /\ lead.call.phase # "none"
    /\ \E ph \in NextPhase(lead.call.phase,
                           lead.call.inst \in mates[lead.call.mate].abortedInsts) :
          lead' = [lead EXCEPT !.call.phase = ph]
    /\ UNCHANGED <<mates, taskVars, permVars, execVars, loopVars, compactVars, busVars>>

\* the run awaited by the lead's call returns; a broadcast goes on
CallDone ==
    /\ lead.call.phase # "none"
    /\ Becomes(BroadcastNext([Now EXCEPT !.lead.call = NoCall], lead.call.rest))

\* task-list.ts 618-625
shutdownTeammate(t) ==
    /\ lead.active
    /\ mates[t].status # "shutdown"
    /\ RoomFor(mates[t])
    /\ Becomes([Now EXCEPT !.mates[t] = Shutdown(Push(mates[t], "shutdown", FALSE))])

\* task-list.ts 627-640: shutdown of every teammate, messageBus.clear(),
\* deleteTeamConfig called
cleanup ==
    /\ lead.active
    /\ ~lead.cleaning
    /\ Becomes([Now EXCEPT
           !.mates = [t \in Teammates |->
                         IF mates[t].status # "shutdown" THEN Shutdown(mates[t])
                         ELSE mates[t]],
           !.lead.subscribed = FALSE,
           !.lead.cleaning = TRUE])

\* task-list.ts 640-648: deleteTeamConfig settles
CleanupDone ==
    /\ lead.cleaning
    /\ lead.active
    /\ Becomes([Now EXCEPT !.lead.active = FALSE])

\* no team
NoTeam ==
    /\ mates = [t \in Teammates |-> NewMate]
    /\ lead = NoLead

\* blockedBy arguments: none, one id (possibly naming no task), or two tasks
DepSets(n) ==
    {{}} \cup {{d} : d \in 0..n} \cup {{d, d + 1} : d \in 1..(n - 1)}

NoRace ==
    /\ snap = {}
    /\ racePc = [c \in Racers |-> "idle"]
    /\ got = [c \in Racers |-> 0]

InitTasks ==
    /\ tasks = <<>>
    /\ lastOp = NoOp
    /\ NoRace
    /\ NoPerm
    /\ NoExec
    /\ NoLoop
    /\ NoBus
    /\ NoTeam

NextTasks ==
    \/ \E bb \in DepSets(Len(tasks)) : addTask(bb)
    \/ \E id \in 0..Len(tasks), who \in Callers : assignTask(id, who)
    \/ \E who \in Callers : claimNextTask(who)
    \/ \E id \in 0..Len(tasks), res \in Results : completeTask(id, res)

SpecTasks == InitTasks /\ [][NextTasks]_vars

(***************************************************************************)
(* The race: a TaskList holding N pending unblocked tasks (and possibly    *)
(* blocked or completed ones), and N callers that call claimNextTask once  *)
(* each, in any order.                                                     *)
(***************************************************************************)
RaceKinds == {"pending", "blocked", "taken", "completed"}

\* the task addTask({}) leaves, the one addTask({unknown id}) leaves, one
\* assigned beforehand to caller 1 (createTeam's pre-assignment), one completed
RaceTask(kind) ==
    IF kind = "pending" THEN NewTask({})
    ELSE IF kind = "blocked" THEN NewTask({0})
    ELSE IF kind = "taken" THEN MarkAssigned(NewTask({}), 1)
    ELSE [NewTask({}) EXCEPT !.status = "completed", !.result = "done"]

InitRace ==
    \E n \in 1..MaxRace : \E kinds \in [1..n -> RaceKinds] :
        /\ tasks = [i \in 1..n |-> RaceTask(kinds[i])]
        /\ Claimable(tasks) # {}
        /\ snap = Claimable(tasks)
        /\ racePc = [c \in Racers |->
                        IF c <= Cardinality(Claimable(tasks)) THEN "ready" ELSE "idle"]
        /\ got = [c \in Racers |-> 0]
        /\ lastOp = NoOp
        /\ NoPerm
        /\ NoExec
        /\ NoLoop
        /\ NoBus
        /\ NoTeam

NextRace == \E c \in Racers : RaceClaim(c)

SpecRace == InitRace /\ [][NextRace]_vars

(***************************************************************************)
(* C1  Claim exclusivity: in the race no task is returned to two callers,  *)
(* every caller that has called gets a task of its own (in_progress,       *)
(* assigned to it), and once all N callers have called, each of the N      *)
(* tasks is in_progress and assigned to exactly one caller.                *)
(***************************************************************************)
RaceOver == \A c \in Racers : racePc[c] # "ready"

ClaimExclusivity ==
    /\ \A c, d \in Racers :
          (c # d /\ got[c] # 0 /\ got[d] # 0) => got[c] # got[d]
    /\ \A c \in Racers : racePc[c] = "done" =>
          /\ got[c] \in snap
          /\ tasks[got[c]].assignee = c
          /\ tasks[got[c]].status = "in_progress"
    /\ RaceOver =>
          \A i \in snap :
              /\ tasks[i].status = "in_progress"
              /\ Cardinality({c \in Racers : got[c] = i}) = 1
              /\ \E c \in Racers : got[c] = i /\ tasks[i].assignee = c

ClaimExclusivityWitness ==
    /\ RaceOver
    /\ Cardinality(snap) >= 2
    /\ \A i \in snap : tasks[i].status = "in_progress"
    /\ Len(tasks) > Cardinality(snap)

(***************************************************************************)
(* C2  Dependency soundness: claimNextTask never returns a task while one  *)
(* of its blockers is not completed, and right after completeTask(A) every *)
(* task with blockedBy = {A} that is not yet taken is claimable.           *)
(***************************************************************************)
DependencySoundness ==
    /\ (lastOp.op = "claim" /\ lastOp.ret # 0) =>
          \A a \in tasks[lastOp.ret].blockedBy :
              a \in 1..Len(tasks) /\ tasks[a].status = "completed"
    /\ (lastOp.op = "complete" /\ lastOp.ret = 1) =>
          \A b \in 1..Len(tasks) :
              (tasks[b].blockedBy = {lastOp.id}
                 /\ tasks[b].status \notin {"in_progress", "completed"})
              => b \in Claimable(tasks)

\* [Write tests, Deploy blockedBy Write tests]: caller 1 took and finished
\* Write tests, then caller 2's claim returned Deploy
DependencySoundnessWitness ==
    /\ Len(tasks) >= 2
    /\ tasks[1].blockedBy = {} /\ tasks[1].assignee = 1 /\ tasks[1].status = "completed"
    /\ tasks[2].blockedBy = {1} /\ tasks[2].assignee = 2 /\ tasks[2].status = "in_progress"
    /\ lastOp = [op |-> "claim", id |-> 2, ret |-> 2]

(***************************************************************************)
(* C3  Legal transitions.  As claimed: every status change is              *)
(* blocked->pending (all blockers completed), pending->in_progress (claim  *)
(* or assign) or in_progress->completed.                                   *)
(***************************************************************************)
Promotion(i) ==
    /\ tasks[i].status = "blocked" /\ tasks'[i].status = "pending"
    /\ isUnblocked(tasks', tasks'[i])

Taking(i) ==
    /\ tasks[i].status = "pending" /\ tasks'[i].status = "in_progress"
    /\ lastOp'.op \in {"claim", "assign"}

LegalTransitionsOnly ==
    [][\A i \in 1..Len(tasks) :
          tasks'[i].status # tasks[i].status =>
              \/ Promotion(i)
              \/ Taking(i)
              \/ tasks[i].status = "in_progress" /\ tasks'[i].status = "completed"]_vars

(***************************************************************************)
(* C3 amended: every status change is blocked->pending (all blockers       *)
(* completed), pending->in_progress (claim or assign), or a change to      *)
(* completed from any status, made by completeTask on that task.           *)
(***************************************************************************)
TransitionsOfTheCode ==
    [][\A i \in 1..Len(tasks) :
          tasks'[i].status # tasks[i].status =>
              \/ Promotion(i)
              \/ Taking(i)
              \/ /\ tasks'[i].status = "completed"
                 /\ lastOp' = [op |-> "complete", id |-> i, ret |-> 1]]_vars

\* a task completed without ever being taken, and a promoted task taken
TransitionsWitness ==
    \E i, j \in 1..Len(tasks) :
        /\ tasks[i].status = "completed" /\ tasks[i].assignee = 0
        /\ tasks[j].blockedBy = {i} /\ tasks[j].status = "in_progress"

(***************************************************************************)
(* PermissionManager driven by its public methods                          *)
(***************************************************************************)
NoTasks ==
    /\ tasks = <<>>
    /\ lastOp = NoOp
    /\ NoRace

\* constructor(mode?, allowRules?, denyRules?): allow rules are pushed first
InitPerm ==
    /\ mode \in Modes
    /\ \E allowRules, denyRules \in {<<>>} \cup {<<r>> : r \in RuleSpecs} :
          rules = [i \in 1..Len(allowRules) |-> parseRule("allow", allowRules[i])]
                  \o [i \in 1..Len(denyRules) |-> parseRule("deny", denyRules[i])]
    /\ sessionAllowed = {}
    /\ lastCheck = NoCheck
    /\ NoTasks
    /\ NoExec
    /\ NoLoop
    /\ NoBus
    /\ NoTeam

NextPerm ==
    \/ \E m \in Modes : setMode(m)
    \/ \E raw \in RuleSpecs : addAllowRule(raw)
    \/ \E raw \in RuleSpecs : addDenyRule(raw)
    \/ \E k \in SessionKeys : allowForSession(k)
    \/ \E t \in CheckTools : \E a \in ArgsFor(t) : Check(t, a)

SpecPerm == InitPerm /\ [][NextPerm]_vars

(***************************************************************************)
(* C4  Permission precedence.  As claimed: when an allow rule and a deny   *)
(* rule both match the call, check() resolves to deny whatever the         *)
(* registration order, the mode and the session grants.                    *)
(***************************************************************************)
BothMatch ==
    /\ lastCheck.op = "check"
    /\ \E i \in 1..Len(rules) :
          rules[i].type = "allow" /\ matchesRule(rules[i], lastCheck.tool, lastCheck.args)
    /\ \E j \in 1..Len(rules) :
          rules[j].type = "deny" /\ matchesRule(rules[j], lastCheck.tool, lastCheck.args)

DenyWinsInEveryMode == BothMatch => lastCheck.result = "deny"

(***************************************************************************)
(* C4 amended: the same, in every mode except bypassPermissions (where     *)
(* check() allows before it looks at any rule).                            *)
(***************************************************************************)
DenyWinsUnlessBypass ==
    (BothMatch /\ mode # "bypassPermissions") => lastCheck.result = "deny"

\* the allow rule registered first, a mode and a session grant that would allow
DenyWinsWitness ==
    /\ BothMatch
    /\ rules[1].type = "allow"
    /\ rules[1].specifier # <<>>
    /\ mode = "dontAsk"
    /\ <<lastCheck.tool>> \in sessionAllowed
    /\ lastCheck.result = "deny"

(***************************************************************************)
(* C5  check() equals the first-match-wins reference evaluation: bypass    *)
(* mode allows; else a matching deny rule denies; else a matching allow    *)
(* rule allows; else a session grant (tool name, or tool + first command   *)
(* token for Bash) allows; else the read-only class is allowed; else the   *)
(* mode decides: dontAsk allows, acceptEdits allows file-edit tools and    *)
(* asks for Bash, plan denies write-class tools, default asks for          *)
(* write-class tools and allows the rest.  Where the claim names no        *)
(* outcome (other tools under acceptEdits and plan) any outcome agrees.    *)
(***************************************************************************)
Outcomes == {"allow", "deny", "ask"}

FileEditClass == {"Edit", "MultiEdit", "Write"}

WriteClass == FileEditClass \cup {"Bash"}

ReadOnlyClass == {"Read", "Grep", "Glob", "ListDir", "AskUser"}

\* the command up to its first space
LeadingToken(cmd) ==
    LET spaces == {k \in 1..Len(cmd) : cmd[k] = " "}
        stop == IF spaces = {} THEN Len(cmd) + 1
                ELSE CHOOSE k \in spaces : \A l \in spaces : k <= l
    IN SubSeq(cmd, 1, stop - 1)

Granted(session, t, a) ==
    \/ <<t>> \in session
    \/ t = "Bash" /\ a.command # <<>> /\ <<"Bash", LeadingToken(a.command)>> \in session

Reference(m, rs, session, t, a) ==
    IF m = "bypassPermissions" THEN {"allow"}
    ELSE IF \E i \in 1..Len(rs) : rs[i].type = "deny" /\ matchesRule(rs[i], t, a)
         THEN {"deny"}
    ELSE IF \E i \in 1..Len(rs) : rs[i].type = "allow" /\ matchesRule(rs[i], t, a)
         THEN {"allow"}
    ELSE IF Granted(session, t, a) THEN {"allow"}
    ELSE IF t \in ReadOnlyClass THEN {"allow"}
    ELSE IF m = "dontAsk" THEN {"allow"}
    ELSE IF m = "acceptEdits"
         THEN IF t \in FileEditClass THEN {"allow"}
              ELSE IF t = "Bash" THEN {"ask"}
              ELSE Outcomes
    ELSE IF m = "plan"
         THEN IF t \in WriteClass THEN {"deny"} ELSE Outcomes
    ELSE IF t \in WriteClass THEN {"ask"} ELSE {"allow"}

CheckEqualsReference ==
    lastCheck.op = "check" =>
        lastCheck.result \in
            Reference(mode, rules, sessionAllowed, lastCheck.tool, lastCheck.args)

\* decided by the mode default after rules, grants and the read-only class
\* were all looked at and did not apply
CheckEqualsReferenceWitness ==
    /\ lastCheck.op = "check"
    /\ mode = "acceptEdits"
    /\ lastCheck.tool = "Bash"
    /\ lastCheck.args.command = <<"s">>
    /\ Len(rules) = 2
    /\ <<"Bash", <<"g">>>> \in sessionAllowed
    /\ lastCheck.result = "ask"

(***************************************************************************)
(* ToolExecutor over a configured PermissionManager                        *)
(***************************************************************************)
ToolCalls ==
    UNION {{[id |-> i, name |-> n, args |-> a] : i \in ToolCallIds, a \in ArgsFor(n)} :
              n \in Registered \cup {"Nope"}}

\* new ToolExecutor(registry, {permissions, askUser}, hookManager?)
InitExec ==
    /\ mode \in Modes
    /\ rules \in {<<>>, <<parseRule("deny", [tool |-> "Edit", specifier |-> <<>>])>>,
                  <<parseRule("allow", [tool |-> "Bash", specifier |-> <<"g", " ", "*">>])>>}
    /\ sessionAllowed = {}
    /\ lastCheck = NoCheck
    /\ hookManager \in BOOLEAN
    /\ exec = IdleExec
    /\ NoTasks
    /\ NoLoop
    /\ NoBus
    /\ NoTeam

NextExec ==
    \/ \E tc \in ToolCalls : Execute(tc)
    \/ \E a \in Answers : Answer(a)
    \/ \E ok \in BOOLEAN : PreHookDone(ok)
    \/ \E out \in {"ok", "fail", "throw"} : ToolDone(out)
    \/ \E ok \in BOOLEAN : PostHookDone(ok)
    \/ \E ok \in BOOLEAN : FailHookDone(ok)

SpecExec == InitExec /\ [][NextExec]_vars

(***************************************************************************)
(* C6  Permission gate: the tool's execute is invoked only if the          *)
(* evaluator allowed, or asked and the human answered y or yes in any      *)
(* letter case; after a denial or any other answer the tool is not         *)
(* invoked, no lifecycle notification is fired and a failed result is      *)
(* returned.                                                               *)
(***************************************************************************)
SaidYes == exec.answered /\ exec.answer \in {"y", "Y", "yes", "Yes", "YES", "yEs", "yeS", "YEs", "YeS", "yES"}

PermissionGate ==
    /\ exec.invoked => (exec.perm = "allow" \/ (exec.perm = "ask" /\ SaidYes))
    /\ (exec.perm = "deny" \/ (exec.perm = "ask" /\ exec.answered /\ ~SaidYes)) =>
          /\ ~exec.invoked
          /\ exec.fired = <<>>
          /\ exec.pc = "returned"
          /\ exec.result.success = FALSE
          /\ exec.result.toolCallId = exec.req.id

\* an approved call that ran with notifications, after the evaluator asked
PermissionGateWitness ==
    /\ exec.perm = "ask"
    /\ exec.answer = "Yes"
    /\ exec.invoked
    /\ exec.fired = <<"PreToolUse", "PostToolUse">>
    /\ exec.pc = "returned"

(***************************************************************************)
(* C7  As claimed: execute() never throws; an unknown tool name, an        *)
(* evaluator denial, a human refusal and an exception thrown by the tool   *)
(* all end in a returned result with success = false that carries the      *)
(* request's toolCallId, never in a rejected promise.                      *)
(***************************************************************************)
Settled == exec.pc \in {"returned", "rejected"}

ExecuteNeverThrows ==
    /\ exec.pc # "rejected"
    /\ (Settled /\ ( \/ exec.req.name \notin Registered
                     \/ exec.perm = "deny"
                     \/ (exec.perm = "ask" /\ ~SaidYes)
                     \/ exec.toolOut = "throw" )) =>
          /\ exec.pc = "returned"
          /\ exec.result.success = FALSE
          /\ exec.result.toolCallId = exec.req.id

(***************************************************************************)
(* C8  As claimed: when a lifecycle notification (PreToolUse, PostToolUse, *)
(* PostToolUseFailure) throws or rejects, execute() still returns, and     *)
(* what it returns is what the tool produced.                              *)
(***************************************************************************)
HookFailureHarmless ==
    (Settled /\ exec.hookErr) =>
        /\ exec.pc = "returned"
        /\ exec.result.from \in {"tool", "toolThrow"}
        /\ exec.result.success = (exec.toolOut = "ok")

(***************************************************************************)
(* AgentLoop: one run() with abort() arriving at any suspension point      *)
(***************************************************************************)
\* new AgentLoop(config)
InitLoop ==
    /\ messages = <<SystemMsg>>
    /\ loop = IdleLoop
    /\ cmp = IdleCompact
    /\ NoBus
    /\ NoTeam
    /\ NoTasks
    /\ NoPerm
    /\ NoExec

NextLoop ==
    \/ \E mt \in TurnLimits, heavy \in BOOLEAN : Run(mt, heavy)
    \/ abort
    \/ \E ok \in BOOLEAN : SummaryDone(ok)
    \/ \E content \in BOOLEAN, n \in CallCounts \cup {-1}, cb \in BOOLEAN : ChatDone(content, n, cb)
    \/ \E heavy \in BOOLEAN, cb \in BOOLEAN : ExecDone(heavy, cb)

\* every provider and tool call settles
SpecLoop == InitLoop /\ [][NextLoop]_vars /\ WF_vars(NextLoop)

(***************************************************************************)
(* C9  As claimed: run() makes at most maxTurns Provider chat calls, and   *)
(* against a Provider that requests a tool call on every turn, with no     *)
(* abort() call, it returns turns = maxTurns, aborted = false and a        *)
(* finalContent with the marker [Max turns reached].                       *)
(***************************************************************************)
Returned == loop.pc = "returned"

AlwaysToolsOutcome ==
    (Returned /\ loop.allToolTurns /\ ~loop.abortCalled) =>
        /\ loop.result.turns = loop.maxTurns
        /\ loop.result.aborted = FALSE
        /\ loop.result.finalContent.marker

TurnBound ==
    /\ loop.turns <= loop.maxTurns
    /\ loop.chats <= loop.turns
    /\ loop.summaries <= loop.turns
    /\ loop.chats + loop.summaries <= 2 * loop.maxTurns
    /\ AlwaysToolsOutcome

CooperativeAbort ==
    /\ loop.late = {}
    /\ (Returned /\ loop.abortCalled) => loop.result.aborted

(***************************************************************************)
(* C11  As claimed: once provider.chat throws during a turn the run is     *)
(* over (no further Provider call, no further tool, no exception to the    *)
(* caller) and the returned finalContent is exactly 'Error: ' followed by  *)
(* the exception message, with nothing appended.                           *)
(***************************************************************************)
ProviderFailureIsFatal ==
    loop.finalContent.text = "error" =>
        /\ Returned
        /\ loop.result.finalContent = [text |-> "error", marker |-> FALSE]

(***************************************************************************)
(* C13  As claimed: in every history the loop reaches, each tool message   *)
(* answers a tool_calls entry of the assistant message it follows (only    *)
(* tool messages of the same assistant message in between).                *)
(***************************************************************************)
CallIdsOf(m) == {m.calls[k] : k \in 1..Len(m.calls)}

ConversationInvariant ==
    \A i \in 1..Len(messages) :
        messages[i].role = "tool" =>
            \E j \in 1..(i - 1) :
                /\ messages[j].role = "assistant"
                /\ \A k \in (j + 1)..(i - 1) : messages[k].role = "tool"
                /\ messages[i].callId \in CallIdsOf(messages[j])

(***************************************************************************)
(* C14  As claimed: when run() returns, every tool_calls entry of every    *)
(* assistant message in the history is answered by exactly one tool        *)
(* message, the answers following the assistant message in request order.  *)
(***************************************************************************)
\* the tool messages that directly follow position i
RECURSIVE AnswersAfter(_, _)
AnswersAfter(msgs, i) ==
    IF i + 1 > Len(msgs) \/ msgs[i + 1].role # "tool" THEN <<>>
    ELSE <<msgs[i + 1].callId>> \o AnswersAfter(msgs, i + 1)

IsPrefix(a, b) == Len(a) <= Len(b) /\ a = SubSeq(b, 1, Len(a))

InitCompact ==
    /\ messages = <<>>
    /\ loop = IdleLoop
    /\ cmp = IdleCompact
    /\ NoBus
    /\ NoTeam
    /\ NoTasks
    /\ NoPerm
    /\ NoExec

NextCompact ==
    \/ \E m \in AddKinds : addMessage(m)
    \/ compact
    \/ \E ok \in BOOLEAN : CompactSettle(ok)

SpecCompact == InitCompact /\ [][NextCompact]_vars

(***************************************************************************)
(* C15  Compaction no-op: on a history of 3 or fewer messages, and on one  *)
(* where nothing remains between the leading system message and the last 4 *)
(* messages, compact() makes no Provider call and leaves the history as it *)
(* was.                                                                    *)
(***************************************************************************)
Called == cmp.pc \in {"summarizing", "done"}

LeadingSystem(h) == IF h # <<>> /\ h[1].role = "system" THEN 1 ELSE 0

NoMiddleLeft(h) == Len(h) - 4 - LeadingSystem(h) <= 0

CompactionNoOp ==
    (Called /\ (Len(cmp.before) <= 3 \/ NoMiddleLeft(cmp.before))) =>
        /\ cmp.pc = "done"
        /\ cmp.calls = 0
        /\ messages = cmp.before

\* compact() returned on a 5-message history with a leading system message
CompactionNoOpWitness ==
    /\ cmp.pc = "done"
    /\ Len(cmp.before) = 5
    /\ cmp.before[1].role = "system"
    /\ cmp.calls = 0
    /\ messages = cmp.before

(***************************************************************************)
(* C16  Compaction tail preservation: when compact() rewrites the history  *)
(* and the summarization call succeeds, the new history is the system      *)
(* message if there is one, the summary message, the acknowledgment, and   *)
(* the last 4 messages of the old history, unchanged and in order.         *)
(***************************************************************************)
FirstSystem(h) ==
    LET S == {i \in 1..Len(h) : h[i].role = "system"} IN
    IF S = {} THEN <<>> ELSE <<h[CHOOSE i \in S : \A j \in S : i <= j]>>

LastFour(h) == [i \in 1..4 |-> h[Len(h) - 4 + i]]

TailPreservation ==
    (cmp.pc = "done" /\ cmp.calls = 1 /\ cmp.ok) =>
        /\ Len(cmp.before) >= 4
        /\ messages = FirstSystem(cmp.before)
                        \o <<[role |-> "user", calls |-> <<>>, callId |-> NoId, heavy |-> FALSE],
                             [role |-> "assistant", calls |-> <<>>, callId |-> NoId, heavy |-> FALSE]>>
                        \o LastFour(cmp.before)
        /\ SubSeq(messages, Len(messages) - 3, Len(messages)) = LastFour(cmp.before)

\* a history of MaxHistory messages with a leading system message, compacted
TailPreservationWitness ==
    /\ cmp.pc = "done"
    /\ cmp.calls = 1
    /\ cmp.ok
    /\ Len(cmp.before) = MaxHistory
    /\ cmp.before[1].role = "system"
    /\ cmp.before[MaxHistory].role = "tool"
    /\ Len(messages) = 7

(***************************************************************************)
(* C17  Compaction failure is recoverable: when the summarization call of  *)
(* the compaction inside run() throws, the history becomes the system      *)
(* message if there is one followed by the last 4 old messages, with no    *)
(* summary, and run() goes on to the provider.chat of the same turn.       *)
(***************************************************************************)
CompactionFailureStep ==
    (loop.pc = "summarizing" /\ loop'.pc # "summarizing" /\ loop'.summaryOk = "failed") =>
        /\ messages' = FirstSystem(messages) \o LastFour(messages)
        /\ loop'.pc = "chatting"
        /\ loop'.turns = loop.turns
        /\ loop'.chats = loop.chats + 1

CompactionFailureRecoverable == [][CompactionFailureStep]_vars

\* the turn's provider.chat is in flight after a failed summarization
CompactionFailureWitness ==
    /\ loop.pc = "chatting"
    /\ loop.summaryOk = "failed"
    /\ loop.summaries >= 1
    /\ Len(messages) = 5

(***************************************************************************)
(* MessageBus driven by arbitrary subscribe / unsubscribe / send /         *)
(* broadcast calls                                                         *)
(***************************************************************************)
InitBus ==
    /\ NoBus
    /\ NoTeam
    /\ NoTasks
    /\ NoPerm
    /\ NoExec
    /\ NoLoop

NextBus ==
    \/ \E n \in AgentNames, h \in Handlers : subscribe(n, h)
    \/ \E n \in AgentNames : unsubscribe(n)
    \/ \E from \in Senders, to \in {"a", "zed"} : send(from, to, "message")
    \/ \E from \in Broadcasters : broadcast(from)

SpecBus == InitBus /\ [][NextBus]_vars

(***************************************************************************)
(* C18  Bus isolation: when send delivers a message and a handler of the   *)
(* recipient throws, every other handler of the recipient is still invoked *)
(* with the message, the message is in the history, and send returns the   *)
(* message without throwing.                                               *)
(***************************************************************************)
InvokedTimes(name, k) ==
    Cardinality({i \in 1..Len(busOp.invoked) :
                    busOp.invoked[i].name = name /\ busOp.invoked[i].handler = k})

BusIsolation ==
    busOp.op = "send" =>
        LET msg == busOp.returned[1]
            hs == HandlersOf(subscribers, msg.to)
        IN /\ ~busOp.threw
           /\ Len(busOp.returned) = 1
           /\ history = Append(busOp.before, msg)
           /\ Len(busOp.invoked) = Len(hs)
           /\ \A k \in 1..Len(hs) : InvokedTimes(msg.to, k) = 1

\* a message sent to a recipient whose first handler throws and whose second
\* handler was invoked after it
BusIsolationWitness ==
    /\ busOp.op = "send"
    /\ busOp.returned[1].to = "a"
    /\ HandlersOf(subscribers, "a") = <<"bad", "ok">>
    /\ Len(busOp.invoked) = 2
    /\ busOp.invoked[2].does = "ok"
    /\ history[Len(history)] = busOp.returned[1]

(***************************************************************************)
(* C19  broadcast(from, content) sends one message to every subscribed     *)
(* name other than the sender and none to the sender: the history grows by *)
(* one message per other subscriber, each handler of each of them is       *)
(* invoked exactly once, and no other name receives anything.              *)
(***************************************************************************)
Subscribed == {n \in Recipients : HandlersOf(subscribers, n) # <<>>}

BroadcastToOthers ==
    busOp.op = "broadcast" =>
        LET others == Subscribed \ {busOp.from}
            new == busOp.returned
        IN /\ ~busOp.threw
           /\ history = busOp.before \o new
           /\ Len(new) = Cardinality(others)
           /\ \A i \in 1..Len(new) :
                 new[i].from = busOp.from /\ new[i].to \in others /\ new[i].type = "broadcast"
           /\ \A n \in others : Cardinality({i \in 1..Len(new) : new[i].to = n}) = 1
           /\ \A n \in others :
                 \A k \in 1..Len(HandlersOf(subscribers, n)) : InvokedTimes(n, k) = 1
           /\ \A i \in 1..Len(busOp.invoked) : busOp.invoked[i].name \in others

\* the lead, itself subscribed, broadcasts to two teammates, one of which has
\* a throwing handler
BroadcastToOthersWitness ==
    /\ busOp.op = "broadcast"
    /\ busOp.from = "lead"
    /\ Subscribed = {"lead", "a", "b"}
    /\ HandlersOf(subscribers, "a") = <<"bad", "ok">>
    /\ Len(busOp.returned) = 2
    /\ Len(busOp.invoked) = 2 + Len(HandlersOf(subscribers, "b"))

(***************************************************************************)
(* One team: the lead creates it, starts it, talks to the teammates,       *)
(* shuts them down and cleans up while they work                           *)
(***************************************************************************)
\* the task definitions of the requests considered: no task; one task; a
\* task and one that waits for it; a task given to the second member and a
\* free one
TeamRequests ==
    {<<>>,
     <<TaskDef("A", {}, 0)>>,
     <<TaskDef("A", {}, 0), TaskDef("B", {"A"}, 0)>>,
     <<TaskDef("A", {}, 2), TaskDef("B", {}, 0)>>}

\* and for a team left to work also: a task that waits for one listed after
\* it; two tasks given to the first member
ProgressRequests ==
    TeamRequests \cup
    {<<TaskDef("A", {"B"}, 0), TaskDef("B", {}, 0)>>,
     <<TaskDef("A", {}, 1), TaskDef("B", {}, 1)>>}

InitTeam ==
    /\ NoTasks
    /\ NoRace
    /\ NoTeam
    /\ NoPerm
    /\ NoExec
    /\ NoLoop
    /\ NoBus

RunResults == {"stop", "error", "max", "aborted"}

NextTeam ==
    \/ \E defs \in TeamRequests : createTeam(defs)
    \/ startTeam
    \/ \E t \in Teammates : RunStep(t)
    \/ \E t \in Teammates, how \in RunResults : TaskRunDone(t, how)
    \/ \E t \in Teammates, ok \in BOOLEAN : SaveDone(t, ok)
    \/ \E t \in Teammates : DrainRunDone(t)
    \/ \E t \in Teammates, ok \in BOOLEAN : ResaveDone(t, ok)
    \/ \E t \in Teammates : sendMessage(t)
    \/ teamBroadcast
    \/ CallStep
    \/ CallDone
    \/ \E t \in Teammates : shutdownTeammate(t)
    \/ cleanup
    \/ CleanupDone

SpecTeam == InitTeam /\ [][NextTeam]_vars

(***************************************************************************)
(* C12  As claimed: on every AgentLoop instance at most one Provider       *)
(* request or tool execution is outstanding at any moment, also on a       *)
(* teammate's loop while the lead sends it a message or broadcasts.        *)
(***************************************************************************)
Outstanding(t, inst) ==
    (IF mates[t].run.phase # "none" /\ mates[t].run.inst = inst THEN 1 ELSE 0)
    + (IF lead.call.phase # "none" /\ lead.call.mate = t /\ lead.call.inst = inst
       THEN 1 ELSE 0)

SingleThreadedLoop ==
    \A t \in Teammates : \A inst \in 1..mates[t].inst : Outstanding(t, inst) <= 1

(***************************************************************************)
(* C20  As claimed: once a teammate's status is shutdown it stays          *)
(* shutdown, whatever run, task completion or claim is still in progress.  *)
(***************************************************************************)
ShutdownStays ==
    \A t \in Teammates : mates[t].status = "shutdown" => mates'[t].status = "shutdown"

ShutdownIsTerminal == [][ShutdownStays]_vars

(***************************************************************************)
(* C22  assignTask(id, who) succeeds only on an existing task whose status *)
(* is pending; for an unknown id or a blocked, in_progress or completed    *)
(* task it returns false and leaves every task as it was.                  *)
(***************************************************************************)
AssignRefused ==
    lastOp'.op = "assign" =>
        LET i == lastOp'.id IN
        (i \notin 1..Len(tasks) \/ tasks[i].status # "pending") =>
            /\ lastOp'.ret = 0
            /\ tasks' = tasks

AssignOnlyPending == [][AssignRefused]_vars

\* the last assignTask named a blocked task of a queue that also holds a
\* completed one: it returned false and the task has no assignee
AssignOnlyPendingWitness ==
    /\ lastOp.op = "assign" /\ lastOp.ret = 0 /\ lastOp.id # 0
    /\ tasks[lastOp.id].status = "blocked"
    /\ tasks[lastOp.id].assignee = 0
    /\ \E j \in 1..Len(tasks) : tasks[j].status = "completed"

(***************************************************************************)
(* C23  claimNextTask(who) returns the first task in creation order that   *)
(* is pending with every blocker completed, and makes it in_progress with  *)
(* assignee who, nothing else changing; it returns none and changes        *)
(* nothing exactly when there is no such task.                             *)
(***************************************************************************)
Ready(i) ==
    /\ tasks[i].status = "pending"
    /\ \A d \in tasks[i].blockedBy : d \in 1..Len(tasks) /\ tasks[d].status = "completed"

ClaimsFirstReady ==
    lastOp'.op = "claim" =>
        IF \E i \in 1..Len(tasks) : Ready(i)
        THEN LET r == lastOp'.ret IN
             /\ r \in 1..Len(tasks) /\ Ready(r)
             /\ \A j \in 1..(r - 1) : ~Ready(j)
             /\ \E who \in Callers :
                   tasks' = [tasks EXCEPT ![r].assignee = who, ![r].status = "in_progress"]
        ELSE lastOp'.ret = 0 /\ tasks' = tasks

NoStaleBlocked ==
    \A i \in 1..Len(tasks) :
        tasks[i].status = "blocked" =>
            \E d \in tasks[i].blockedBy :
                d \notin 1..Len(tasks) \/ tasks[d].status # "completed"

(***************************************************************************)
(* C27  As claimed: the returned finalContent carries the marker           *)
(* [Max turns reached] only when the run ended at the turn ceiling after   *)
(* turns that all requested tools; a run whose last provider.chat returned *)
(* no tool call, or threw, returns a finalContent without the marker.      *)
(***************************************************************************)
MarkerOnlyAtCeiling ==
    (Returned /\ loop.result.finalContent.marker) => loop.allToolTurns

(***************************************************************************)
(* C21  For a team that cleanup() has not been called on: when the save    *)
(* that follows a teammate's completeTask settles and the queue has no     *)
(* uncompleted task, onAllTasksComplete is invoked in that step; and no    *)
(* step invokes onAllTasksComplete while some task is not completed.       *)
(***************************************************************************)
Invoked == lead'.raised > lead.raised \/ lead.raised = 2

CompletionReported(t) ==
    /\ mates[t].pc = "saving" /\ mates'[t].pc # "saving"
    /\ lead.active /\ ~lead.cleaning
    /\ isAllComplete(tasks)

RaisedWhenComplete ==
    /\ \A t \in Teammates : CompletionReported(t) => Invoked
    /\ lead'.raised > lead.raised => isAllComplete(tasks')

CompletedOnlyOnStop ==
    \A t \in Teammates :
        (mates[t].pc = "saving" /\ mates[t].result # "stop") =>
            tasks[mates[t].task].status # "completed"

(***************************************************************************)
(* C28  As claimed: a task whose blockedBy names the title of another task *)
(* of the request is blocked, hence neither claimed nor started, as long   *)
(* as the named task is not completed, wherever the named task is listed.  *)
(***************************************************************************)
DependenciesEnforced ==
    LET defs == lead.request IN
    \A i, j \in 1..Len(tasks) :
        (i # j /\ defs[j].title \in defs[i].blockedBy /\ tasks[j].status # "completed")
            => tasks[i].status = "blocked"

(***************************************************************************)
(* C29  As claimed: a message of TeamManager.sendMessage that was run on   *)
(* the teammate's loop by the direct call is not run a second time when    *)
(* the teammate drains its pending bus messages.                           *)
(***************************************************************************)
DrainStarts(t) ==
    /\ mates[t].pending # <<>>
    /\ mates'[t].pending = Tail(mates[t].pending)
    /\ mates'[t].pc = "draining"
    /\ mates'[t].run.phase = "chat"

InjectedOnce ==
    [][\A t \in Teammates : DrainStarts(t) => ~Head(mates[t].pending).direct]_vars

(***************************************************************************)
(* C30  As claimed: for one team the coordinator invokes                   *)
(* onAllTasksComplete at most once.                                        *)
(***************************************************************************)
AllCompleteAtMostOnce == lead.raised <= 1

(***************************************************************************)
(* A team left to work: created, started, every run of a teammate ends,    *)
(* every save succeeds, and the lead neither talks to the teammates nor    *)
(* shuts them down                                                         *)
(***************************************************************************)
Settle(t) ==
    \/ \E how \in RunResults : TaskRunDone(t, how)
    \/ SaveDone(t, TRUE)
    \/ ResaveDone(t, TRUE)

NextProgress ==
    \/ \E defs \in ProgressRequests : createTeam(defs)
    \/ startTeam
    \/ \E t \in Teammates : RunStep(t)
    \/ \E t \in Teammates : Settle(t)

\* createTeam and startTeam are called, every run returns, every save settles
SpecProgress ==
    /\ InitTeam
    /\ [][NextProgress]_vars
    /\ WF_vars(\E defs \in ProgressRequests : createTeam(defs))
    /\ WF_vars(startTeam)
    /\ \A t \in Teammates : WF_vars(Settle(t))

(***************************************************************************)
(* C25  As claimed: when the team is created and started, every run        *)
(* terminates and no teammate is shut down, eventually every task of the   *)
(* queue is completed and onAllTasksComplete has been invoked.             *)
(***************************************************************************)
TeamProgress == <>(lead.started /\ isAllComplete(tasks) /\ lead.raised >= 1)

====
